---------------------------- MODULE Spec2Model ----------------------------
(***************************************************************************)
(* Book Hub (hub/core): authors, books, reviews and reading lists kept in  *)
(* a relational store, and the request handlers of views.py over it.       *)
(*                                                                         *)
(* The store is the state.  Primary keys of authors, books and reading     *)
(* lists are handed out by counters and never reused.  Review rows are a   *)
(* bag of (book, user, rating, review_text): no handler reads a review's   *)
(* primary key, and a bag can hold two rows for one (book, user) pair, so  *)
(* that uniqueness is something the model decides, not its representation. *)
(* Averages are exact rationals (sum, count); average_rating returns       *)
(* hundredths (4.67 is 467).                                               *)
(***************************************************************************)
EXTENDS Integers, FiniteSets, Sequences, Bags, TLC

VARIABLES users, authors, nextAuthor, books, nextBook, reviews, lists,
          nextList, inflight, resp

vars == <<users, authors, nextAuthor, books, nextBook, reviews, lists,
          nextList, inflight, resp>>

-----------------------------------------------------------------------------
(* Bounds of the model *)

NumUsers == 3

MaxAuthors == 1

MaxBooks == 2

MaxLists == 2

MaxReviews == 3

MaxInflight == 2

(* Program constants: Review.RATING_CHOICES is 1..5 *)

MinRating == 1

MaxRating == 5

-----------------------------------------------------------------------------
(* Value sets *)

Users == 1 .. NumUsers

AuthorIds == 1 .. MaxAuthors

BookIds == 1 .. MaxBooks

ListIds == 1 .. MaxLists

RATING_CHOICES == MinRating .. MaxRating

\* what a client may post as rating: the choices and a value on either side
RatingInputs == (MinRating - 1) .. (MaxRating + 1)

\* posted text fields: the empty string and a non-empty one
Texts == {"", "t"}

\* request.POST.get('reading_list'): absent (0 stands for None and '') or a
\* pk; a pk the counter has not handed out yet, or whose row was deleted,
\* names no list
ListIdInputs == 0 .. MaxLists

\* book_id of the URL; a pk not handed out yet, or deleted, names no book
BookIdInputs == 1 .. MaxBooks

\* thresholds of highly_rated, in hundredths
Thresholds == {0, 100, 350, 400, 433, 434, 450, 467, 500}

\* The last response.  A rendered page ("ok", or "form_invalid" for a form
\* shown again with its errors) carries the user it was rendered for and the
\* reading lists it shows.  A redirect carries the book whose detail page it
\* leads to (0: another page), the flash message, and the reading lists the
\* request wrote to.  An Http404 ("not_found") carries its text; an uncaught
\* IntegrityError ("integrity_error") carries nothing.
Page(u, v, s, b) ==
    [user |-> u, view |-> v, status |-> s, body |-> b, target |-> 0, message |-> ""]

Redirect(v, b, t, m) ==
    [user |-> 0, view |-> v, status |-> "redirect", body |-> b, target |-> t,
     message |-> m]

Failure(v, s, m) ==
    [user |-> 0, view |-> v, status |-> s, body |-> {}, target |-> 0, message |-> m]

NoResp == Failure("none", "none", "")

NoBook == "No Book matches the given query."

NoReadingList == "No ReadingList matches the given query."


-----------------------------------------------------------------------------
(* The store *)

TypeOK ==
    /\ users \subseteq Users
    /\ authors \subseteq AuthorIds
    /\ nextAuthor \in 1 .. (MaxAuthors + 1)
    /\ DOMAIN books \subseteq BookIds
    /\ \A b \in DOMAIN books : books[b].author \in AuthorIds
    /\ nextBook \in 1 .. (MaxBooks + 1)
    /\ IsABag(reviews)
    /\ \A r \in BagToSet(reviews) :
          r \in [book : BookIds, user : Users, rating : RATING_CHOICES,
                 review_text : Texts \ {""}]
    /\ DOMAIN lists \subseteq ListIds
    /\ \A l \in DOMAIN lists :
          lists[l] \in [name : Texts \ {""}, user : Users,
                        books : SUBSET BookIds, is_public : BOOLEAN]
    /\ nextList \in 1 .. (MaxLists + 1)
    /\ IsABag(inflight)
    /\ resp.view \in STRING

\* Author table: the set of primary keys (name, bio, birth_date are read by
\* no handler)
Author == authors

\* Book table: pk -> row; the row keeps the foreign key
Book == DOMAIN books

\* Review rows, as a set (a row held twice appears once here)
Review == BagToSet(reviews)

ReadingList == DOMAIN lists

\* book.reviews: the rows of Review whose book is b, with their multiplicity
book_reviews(b) == {r \in Review : r.book = b}

RECURSIVE SumRatings(_)
SumRatings(rows) ==
    IF rows = {} THEN 0
    ELSE LET r == CHOOSE x \in rows : TRUE
         IN  r.rating * CopiesIn(r, reviews) + SumRatings(rows \ {r})

RECURSIVE CountRows(_)
CountRows(rows) ==
    IF rows = {} THEN 0
    ELSE LET r == CHOOSE x \in rows : TRUE
         IN  CopiesIn(r, reviews) + CountRows(rows \ {r})

\* Avg('rating') over a row set: NULL (den = 0) on no rows, else sum/count
Avg(rows) == [num |-> SumRatings(rows), den |-> CountRows(rows)]

IsNull(avg) == avg.den = 0

\* a round that cuts the digits off
Round2Truncating(avg) == (100 * avg.num) \div avg.den

\* round(avg, 2), in hundredths: the nearest hundredth, a tie going to the
\* even one (a tie needs a count that is a multiple of 8)
Round2(avg) ==
    LET q == (100 * avg.num) \div avg.den
        rem2 == 2 * ((100 * avg.num) % avg.den)
    IN  IF rem2 > avg.den THEN q + 1
        ELSE IF rem2 < avg.den THEN q
        ELSE IF q % 2 = 0 THEN q ELSE q + 1

\* Book.average_rating: "round(avg, 2) if avg else 0"; avg is falsy when it
\* is None and when it is 0.0
average_rating(b) ==
    LET avg == Avg(book_reviews(b))
    IN  IF ~IsNull(avg) /\ avg.num # 0 THEN Round2(avg) ELSE 0

\* Book.review_count
review_count(b) == CountRows(book_reviews(b))

\* a filter that takes the average of no reviews to be 0, as average_rating does
AvgGteNullAsZero(avg, min_rating) ==
    IF IsNull(avg) THEN 0 >= min_rating
    ELSE 100 * avg.num >= min_rating * avg.den

\* avg_rating__gte = min_rating on the annotation: NULL >= x is not true
AvgGte(avg, min_rating) ==
    /\ ~IsNull(avg)
    /\ 100 * avg.num >= min_rating * avg.den

\* BookManager.highly_rated(min_rating), min_rating in hundredths
highly_rated(min_rating) ==
    {b \in Book : AvgGte(Avg(book_reviews(b)), min_rating)}

-----------------------------------------------------------------------------
(* Store constraints and cascades, as models.py declares them *)

\* the rows of bag B that satisfy Keep, with their multiplicity
BagFilter(B, Keep(_)) == [r \in {x \in DOMAIN B : Keep(x)} |-> B[r]]

OneRow(r) == SetToBag({r})

\* Review.book and Review.user are foreign keys: an INSERT needs both rows
ForeignKeysOk(row) == row.book \in Book /\ row.user \in users

\* the store without the unique constraint
UniqueTogetherMissing(row) == TRUE

\* Review.Meta.unique_together = ['book', 'user']
UniqueTogetherOk(row) ==
    \A r \in Review : ~(r.book = row.book /\ r.user = row.user)

\* a save that overwrites the user's earlier review of the book
SaveReviewUpsert(row) ==
    IF ~ForeignKeysOk(row) THEN [ok |-> FALSE, reviews |-> reviews]
    ELSE [ok |-> TRUE,
          reviews |-> BagFilter(reviews,
                          LAMBDA r : ~(r.book = row.book /\ r.user = row.user))
                      (+) OneRow(row)]

\* review.save() of a new instance: an INSERT, which the store rejects with
\* IntegrityError when a constraint fails; nothing is written then
SaveReview(row) ==
    IF ForeignKeysOk(row) /\ UniqueTogetherOk(row)
    THEN [ok |-> TRUE, reviews |-> reviews (+) OneRow(row)]
    ELSE [ok |-> FALSE, reviews |-> reviews]

\* an author deleted without its books
BooksOfAuthorsKept(dead) == {}

\* Book.author, on_delete=CASCADE: the books that go with deleted authors
BooksOfAuthors(dead) == {b \in Book : books[b].author \in dead}

\* Review.book and Review.user, on_delete=CASCADE: the rows that stay
ReviewsAfterDelete(deadBooks, deadUsers) ==
    BagFilter(reviews, LAMBDA r : r.book \notin deadBooks /\ r.user \notin deadUsers)

\* ReadingList.user, on_delete=CASCADE, and the rows of the books
\* ManyToManyField, which go with either side
ListsAfterDelete(deadBooks, deadUsers, deadLists) ==
    [l \in {x \in ReadingList : lists[x].user \notin deadUsers /\ x \notin deadLists} |->
        [lists[l] EXCEPT !.books = @ \ deadBooks]]

\* obj.delete(): the collector follows every CASCADE and deletes in one
\* transaction
Delete(deadAuthors, deadBooks0, deadUsers, deadLists) ==
    LET deadBooks == deadBooks0 \cup BooksOfAuthors(deadAuthors)
    IN  /\ authors' = authors \ deadAuthors
        /\ books' = [b \in Book \ deadBooks |-> books[b]]
        /\ users' = users \ deadUsers
        /\ reviews' = ReviewsAfterDelete(deadBooks, deadUsers)
        /\ lists' = ListsAfterDelete(deadBooks, deadUsers, deadLists)

-----------------------------------------------------------------------------
(* Forms *)

\* ReviewForm: rating is one of RATING_CHOICES, review_text is required.
\* book and user are not fields of the form, so its validation does not
\* look at unique_together
ReviewFormValid(rating, text) == rating \in RATING_CHOICES /\ text # ""

\* ReadingListForm: name is required, every chosen book must exist
ReadingListFormValid(name, bks) == name # "" /\ bks \subseteq Book

\* BookForm: title is required, author is a choice among the authors
BookFormValid(title, author_id) == title # "" /\ author_id \in Author

\* AuthorForm: name is required
AuthorFormValid(name) == name # ""

-----------------------------------------------------------------------------
(* Handlers of views.py.  Every requester u is a logged-in user
   (login_required, LoginRequiredMixin); requests are POSTs unless the
   view only answers GET. *)

Init ==
    /\ users = Users
    /\ authors = {}
    /\ nextAuthor = 1
    /\ books = << >>
    /\ nextBook = 1
    /\ reviews = EmptyBag
    /\ lists = << >>
    /\ nextList = 1
    /\ inflight = EmptyBag
    /\ resp = NoResp

\* AddAuthorView
AddAuthorView(u, name) ==
    /\ u \in users
    /\ nextAuthor <= MaxAuthors
    /\ IF AuthorFormValid(name)
       THEN /\ authors' = authors \cup {nextAuthor}
            /\ nextAuthor' = nextAuthor + 1
            /\ resp' = Redirect("add-author", {}, 0, "")
       ELSE /\ resp' = Page(u, "add-author", "form_invalid", {})
            /\ UNCHANGED <<authors, nextAuthor>>
    /\ UNCHANGED <<users, books, nextBook, reviews, lists, nextList, inflight>>

\* AddBookView
AddBookView(u, title, author_id) ==
    /\ u \in users
    /\ nextBook <= MaxBooks
    /\ IF BookFormValid(title, author_id)
       THEN /\ books' = (nextBook :> [author |-> author_id]) @@ books
            /\ nextBook' = nextBook + 1
            /\ resp' = Redirect("add-book", {}, 0, "")
       ELSE /\ resp' = Page(u, "add-book", "form_invalid", {})
            /\ UNCHANGED <<books, nextBook>>
    /\ UNCHANGED <<users, authors, nextAuthor, reviews, lists, nextList, inflight>>

\* the row add_review builds from the form, the book and request.user
ReviewRow(u, book_id, rating, text) ==
    [book |-> book_id, user |-> u, rating |-> rating, review_text |-> text]

\* add_review after review.save(): the redirect to book-detail, or the
\* IntegrityError that the view does not catch
add_review_response(ok, book_id) ==
    IF ok THEN Redirect("add-review", {}, book_id, "Review added successfully!")
    ELSE Failure("add-review", "integrity_error", "")

\* add_review, one request running alone
add_review(u, book_id, rating, text) ==
    /\ u \in users
    /\ inflight = EmptyBag
    /\ BagCardinality(reviews) < MaxReviews
    /\ IF book_id \notin Book
       THEN /\ resp' = Failure("add-review", "not_found", NoBook)
            /\ UNCHANGED reviews
       ELSE IF ~ReviewFormValid(rating, text)
       THEN /\ resp' = Page(u, "add-review", "form_invalid", {})
            /\ UNCHANGED reviews
       ELSE LET saved == SaveReview(ReviewRow(u, book_id, rating, text))
            IN  /\ reviews' = saved.reviews
                /\ resp' = add_review_response(saved.ok, book_id)
    /\ UNCHANGED <<users, authors, nextAuthor, books, nextBook, lists, nextList, inflight>>

\* add_review up to form.save(commit=False): the request now holds a row it
\* has not written; other requests run before it does
add_review_begin(u, book_id, rating, text) ==
    /\ u \in users
    /\ BagCardinality(inflight) < MaxInflight
    /\ BagCardinality(reviews) + BagCardinality(inflight) < MaxReviews
    /\ IF book_id \notin Book
       THEN /\ resp' = Failure("add-review", "not_found", NoBook)
            /\ UNCHANGED inflight
       ELSE IF ~ReviewFormValid(rating, text)
       THEN /\ resp' = Page(u, "add-review", "form_invalid", {})
            /\ UNCHANGED inflight
       ELSE /\ inflight' = inflight (+) OneRow(ReviewRow(u, book_id, rating, text))
            /\ UNCHANGED resp
    /\ UNCHANGED <<users, authors, nextAuthor, books, nextBook, reviews, lists, nextList>>

\* add_review from review.save() on
add_review_save(row) ==
    /\ BagIn(row, inflight)
    /\ LET saved == SaveReview(row)
       IN  /\ reviews' = saved.reviews
           /\ resp' = add_review_response(saved.ok, row.book)
    /\ inflight' = inflight (-) OneRow(row)
    /\ UNCHANGED <<users, authors, nextAuthor, books, nextBook, lists, nextList>>

\* a listing that also shows the public lists of others
OwnOrPublicLists(u) ==
    {l \in DOMAIN lists : lists[l].user = u \/ lists[l].is_public}

\* ReadingListView.get_queryset: filter(user=request.user)
ReadingListView_get_queryset(u) == {l \in ReadingList : lists[l].user = u}

\* ReadingListView (GET /reading-lists/)
ReadingListView(u) ==
    /\ u \in users
    /\ resp' = Page(u, "reading-lists", "ok", ReadingListView_get_queryset(u))
    /\ UNCHANGED <<users, authors, nextAuthor, books, nextBook, reviews, lists,
                   nextList, inflight>>

\* a detail view scoped to the requester's lists
OwnListsOnly(u) == {l \in DOMAIN lists : lists[l].user = u}

\* ReadingListDetailView declares model = ReadingList and no get_queryset:
\* the generic view looks pk up among all reading lists
ReadingListDetailView_get_queryset(u) == ReadingList

\* ReadingListDetailView (GET /reading-lists/<pk>/)
ReadingListDetailView(u, pk) ==
    /\ u \in users
    /\ resp' = IF pk \in ReadingListDetailView_get_queryset(u)
               THEN Page(u, "reading-list-detail", "ok", {pk})
               ELSE Failure("reading-list-detail", "not_found", NoReadingList)
    /\ UNCHANGED <<users, authors, nextAuthor, books, nextBook, reviews, lists,
                   nextList, inflight>>

\* a new row whose books are never added
NewReadingListNoBooks(name, u, bks, is_public) ==
    [name |-> name, user |-> u, books |-> {}, is_public |-> is_public]

\* a new ReadingList row; is_public defaults to True
NewReadingList(name, u, bks, is_public) ==
    [name |-> name, user |-> u, books |-> bks, is_public |-> is_public]

\* CreateReadingListView: form_valid sets the owner, then the form saves the
\* row and its books
CreateReadingListView(u, name, is_public, bks) ==
    /\ u \in users
    /\ nextList <= MaxLists
    /\ IF ReadingListFormValid(name, bks)
       THEN /\ lists' = (nextList :> NewReadingList(name, u, bks, is_public)) @@ lists
            /\ nextList' = nextList + 1
            /\ resp' = Redirect("create-reading-list", {}, 0,
                                 "Reading list created successfully!")
       ELSE /\ resp' = Page(u, "create-reading-list", "form_invalid", {})
            /\ UNCHANGED <<lists, nextList>>
    /\ UNCHANGED <<users, authors, nextAuthor, books, nextBook, reviews, inflight>>

\* a lookup by pk alone
AnyList(reading_list_id, u) == reading_list_id \in DOMAIN lists

\* get_object_or_404(ReadingList, pk=reading_list_id, user=request.user)
\* finds a row
OwnedList(reading_list_id, u) ==
    reading_list_id \in ReadingList /\ lists[reading_list_id].user = u

\* "if reading_list_id:"
ListChosen(reading_list_id) == reading_list_id # 0

\* a handler that creates a list whatever the name
NameNotChecked(new_list_name) == TRUE

\* "if name:"
NameGiven(new_list_name) == new_list_name # ""

\* add_to_reading_list; reading_list_id 0 and new_list_name "" are the falsy
\* values of request.POST.get (absent or empty)
add_to_reading_list(u, book_id, reading_list_id, new_list_name) ==
    /\ u \in users
    /\ (book_id \in Book /\ ~ListChosen(reading_list_id) /\ NameGiven(new_list_name))
          => nextList <= MaxLists
    /\ IF book_id \notin Book
       THEN /\ resp' = Failure("add-to-reading-list", "not_found", NoBook)
            /\ UNCHANGED <<lists, nextList>>
       ELSE IF ListChosen(reading_list_id)
       THEN IF OwnedList(reading_list_id, u)
            THEN /\ lists' = [lists EXCEPT ![reading_list_id].books = @ \cup {book_id}]
                 /\ resp' = Redirect("add-to-reading-list", {reading_list_id}, book_id,
                                     "Book added to list")
                 /\ UNCHANGED nextList
            ELSE /\ resp' = Failure("add-to-reading-list", "not_found", NoReadingList)
                 /\ UNCHANGED <<lists, nextList>>
       ELSE IF NameGiven(new_list_name)
       THEN /\ lists' = (nextList :> NewReadingList(new_list_name, u, {book_id}, TRUE))
                           @@ lists
            /\ nextList' = nextList + 1
            /\ resp' = Redirect("add-to-reading-list", {nextList}, book_id,
                                "New reading list created and book added")
       ELSE /\ resp' = Redirect("add-to-reading-list", {}, book_id, "")
            /\ UNCHANGED <<lists, nextList>>
    /\ UNCHANGED <<users, authors, nextAuthor, books, nextBook, reviews, inflight>>

-----------------------------------------------------------------------------
(* Deletions: the admin site (admin.py registers the four models; User
   comes registered) *)

\* the admin's answer to a deletion: back to the changelist, with its message
Deleted(message) ==
    Redirect("admin-delete", {}, 0, message)

DeleteAuthor(a) ==
    /\ a \in Author
    /\ Delete({a}, {}, {}, {})
    /\ resp' = Deleted("The author was deleted successfully.")
    /\ UNCHANGED <<nextAuthor, nextBook, nextList, inflight>>

DeleteBook(b) ==
    /\ b \in Book
    /\ Delete({}, {b}, {}, {})
    /\ resp' = Deleted("The book was deleted successfully.")
    /\ UNCHANGED <<nextAuthor, nextBook, nextList, inflight>>

DeleteUser(u) ==
    /\ u \in users
    /\ Delete({}, {}, {u}, {})
    /\ resp' = Deleted("The user was deleted successfully.")
    /\ UNCHANGED <<nextAuthor, nextBook, nextList, inflight>>

DeleteReadingList(l) ==
    /\ l \in ReadingList
    /\ Delete({}, {}, {}, {l})
    /\ resp' = Deleted("The reading list was deleted successfully.")
    /\ UNCHANGED <<nextAuthor, nextBook, nextList, inflight>>

DeleteReview(row) ==
    /\ BagIn(row, reviews)
    /\ reviews' = reviews (-) OneRow(row)
    /\ resp' = Deleted("The review was deleted successfully.")
    /\ UNCHANGED <<users, authors, nextAuthor, books, nextBook, lists, nextList, inflight>>

-----------------------------------------------------------------------------
(* Specifications *)

\* review submissions that overlap: a request may run between another's
\* validation and its save
NextReview ==
    \/ \E u \in Users, name \in Texts : AddAuthorView(u, name)
    \/ \E u \in Users, title \in Texts, a \in AuthorIds : AddBookView(u, title, a)
    \/ \E u \in Users, b \in BookIdInputs, r \in {MinRating, MaxRating, MaxRating + 1},
          t \in Texts :
          add_review_begin(u, b, r, t)
    \/ \E row \in BagToSet(inflight) : add_review_save(row)
    \/ \E b \in BookIds : DeleteBook(b)
    \/ \E u \in Users : DeleteUser(u)

SpecReview == Init /\ [][NextReview]_vars

\* reviews created and deleted, one request at a time
NextRating ==
    \/ \E u \in Users, name \in Texts : AddAuthorView(u, name)
    \/ \E u \in Users, title \in Texts, a \in AuthorIds : AddBookView(u, title, a)
    \/ \E u \in Users, b \in BookIdInputs, r \in RatingInputs, t \in Texts :
          add_review(u, b, r, t)
    \/ \E row \in BagToSet(reviews) : DeleteReview(row)
    \/ \E b \in BookIds : DeleteBook(b)

SpecRating == Init /\ [][NextRating]_vars

\* reading lists
NextList ==
    \/ \E u \in Users, name \in Texts : AddAuthorView(u, name)
    \/ \E u \in Users, title \in Texts, a \in AuthorIds : AddBookView(u, title, a)
    \/ \E u \in Users, name \in Texts, p \in BOOLEAN, bks \in SUBSET BookIdInputs :
          CreateReadingListView(u, name, p, bks)
    \/ \E u \in Users, b \in BookIdInputs, l \in ListIdInputs, name \in Texts :
          add_to_reading_list(u, b, l, name)
    \/ \E u \in Users : ReadingListView(u)
    \/ \E u \in Users, pk \in ListIds : ReadingListDetailView(u, pk)
    \/ \E b \in BookIds : DeleteBook(b)
    \/ \E l \in ListIds : DeleteReadingList(l)

SpecList == Init /\ [][NextList]_vars

\* every handler that writes and every deletion that cascades, one request
\* at a time
Next ==
    \/ \E u \in Users, name \in Texts : AddAuthorView(u, name)
    \/ \E u \in Users, title \in Texts, a \in AuthorIds : AddBookView(u, title, a)
    \/ \E u \in Users, b \in BookIdInputs, t \in Texts :
          add_review(u, b, MaxRating, t)
    \/ \E u \in Users, name \in Texts, bks \in SUBSET BookIdInputs :
          CreateReadingListView(u, name, TRUE, bks)
    \/ \E u \in Users, b \in BookIdInputs, l \in ListIdInputs, name \in Texts :
          add_to_reading_list(u, b, l, name)
    \/ \E a \in AuthorIds : DeleteAuthor(a)
    \/ \E b \in BookIds : DeleteBook(b)
    \/ \E u \in Users : DeleteUser(u)

Spec == Init /\ [][Next]_vars

-----------------------------------------------------------------------------
(* Claims about the aggregates (SpecRating) *)

\* the number of rows of book b holding rating k
RowsRated(b, k) ==
    BagCardinality(BagFilter(reviews, LAMBDA r : r.book = b /\ r.rating = k))

\* count and sum of book b's current ratings, rating by rating
NumRated(b) ==
    RowsRated(b, 1) + RowsRated(b, 2) + RowsRated(b, 3) + RowsRated(b, 4) + RowsRated(b, 5)

TotalRated(b) ==
    RowsRated(b, 1) + 2 * RowsRated(b, 2) + 3 * RowsRated(b, 3)
        + 4 * RowsRated(b, 4) + 5 * RowsRated(b, 5)

Abs(x) == IF x < 0 THEN -x ELSE x

\* v hundredths is the mean total/num rounded to 2 decimals: no hundredth is
\* nearer to the mean
IsMeanRounded2(v, total, num) == 2 * Abs(v * num - 100 * total) <= num

\* C6: in every state reached by review creations and deletions, for every
\* book b, review_count(b) is the number of b's current reviews, and
\* average_rating(b) is 0 when there are none and the mean of the current
\* ratings rounded to 2 decimals otherwise; ratings 3 and 5 give 4.0 and 2.
C6_AverageRatingCurrent ==
    \A b \in BookIds :
        /\ review_count(b) = NumRated(b)
        /\ NumRated(b) = 0 => average_rating(b) = 0
        /\ NumRated(b) > 0 =>
              IsMeanRounded2(average_rating(b), TotalRated(b), NumRated(b))
        /\ (NumRated(b) = 2 /\ RowsRated(b, 3) = 1 /\ RowsRated(b, 5) = 1)
              => (average_rating(b) = 400 /\ review_count(b) = 2)

\* C6 witness: a deletion has just run, one book is left with ratings 3 and
\* 5 out of three, another book has lost all its reviews
C6_Witness ==
    /\ resp.view = "admin-delete"
    /\ \E b \in Book :
          /\ RowsRated(b, 3) = 1 /\ RowsRated(b, 5) = 1 /\ review_count(b) = 2
          /\ average_rating(b) = 400
    /\ \E b \in Book : review_count(b) = 0 /\ average_rating(b) = 0

\* C7 as stated: for every threshold, highly_rated returns exactly the books
\* with at least one review whose average_rating (the mean rounded to 2
\* decimals) is >= the threshold.
C7_HighlyRatedRounded ==
    \A m \in Thresholds :
        highly_rated(m) = {b \in Book : NumRated(b) >= 1 /\ average_rating(b) >= m}

\* C7 amended: for every threshold, highly_rated returns exactly the books
\* with at least one review whose mean rating, not rounded, is >= the
\* threshold; a book with no review is never returned, though its
\* average_rating is 0.
C7_HighlyRatedExactMean ==
    \A m \in Thresholds :
        /\ highly_rated(m) =
              {b \in Book : NumRated(b) >= 1 /\ 100 * TotalRated(b) >= m * NumRated(b)}
        /\ \A b \in Book : (NumRated(b) = 0) => (average_rating(b) = 0 /\ b \notin highly_rated(m))

\* C7 witness: a book shown as 4.67 that highly_rated(4.67) leaves out, beside
\* a book with no review that highly_rated(0) leaves out and one that
\* highly_rated(4.0) returns
C7_Witness ==
    /\ \E b \in Book : average_rating(b) = 467 /\ b \notin highly_rated(467)
                       /\ b \in highly_rated(400)
    /\ \E b \in Book : review_count(b) = 0 /\ b \notin highly_rated(0)

-----------------------------------------------------------------------------
(* Claims about review submission (SpecReview) *)

\* the number of Review rows for the pair (b, u)
RowsOfPair(b, u) ==
    BagCardinality(BagFilter(reviews, LAMBDA r : r.book = b /\ r.user = u))

\* C1: in every state reached by any interleaving of add_review requests, the
\* store holds at most one Review row for each (book, user) pair.
C1_AtMostOneReviewPerPair ==
    \A b \in BookIds, u \in Users : RowsOfPair(b, u) <= 1

\* C1 witness: of three submissions by one user for one book, two of them
\* with different ratings, one is stored, one has just been rejected and one
\* is still between its validation and its save
C1_Witness ==
    /\ resp.view = "add-review" /\ resp.status = "integrity_error"
    /\ \E r \in Review, q \in BagToSet(inflight) :
          /\ q.book = r.book /\ q.user = r.user /\ q.rating # r.rating
          /\ r.book \in Book /\ r.user \in users

\* C2: when the save of a valid review runs for a (book, user) pair that
\* already has a review, it fails with the uniqueness violation, no row is
\* created and the first review is unchanged.
C2_SecondReviewRejected ==
    [][\A row \in BagToSet(inflight) :
          (add_review_save(row) /\ RowsOfPair(row.book, row.user) >= 1)
             => (/\ reviews' = reviews
                 /\ resp'.view = "add-review"
                 /\ resp'.status = "integrity_error")]_vars

\* C2 witness: with no book and no user ever deleted, a submission has just
\* failed on the store while the pair's earlier review, of another rating
\* than some review it could have replaced it with, is there
C2_Witness ==
    /\ resp.view = "add-review" /\ resp.status = "integrity_error"
    /\ users = Users /\ Book = 1 .. (nextBook - 1)
    /\ inflight = EmptyBag
    /\ \E r \in Review : RowsOfPair(r.book, r.user) = 1 /\ r.rating = MinRating

-----------------------------------------------------------------------------
(* Claims about reading lists *)

ListsOwnedBy(u) == {l \in ReadingList : lists[l].user = u}

\* C3: whenever the listing has answered a user A, it holds exactly the
\* lists whose owner is A, and no list of another user B, public or not.
C3_ListingOnlyOwn ==
    resp.view = "reading-lists" =>
        /\ resp.status = "ok"
        /\ \A l \in ReadingList : (l \in resp.body) <=> (lists[l].user = resp.user)
        /\ resp.body \subseteq ReadingList
        /\ \A B \in Users \ {resp.user} : resp.body \cap ListsOwnedBy(B) = {}

\* C3 witness: the listing answered a user with a list of theirs while
\* another user owns a public list
C3_Witness ==
    /\ resp.view = "reading-lists"
    /\ resp.body # {}
    /\ \E l \in ReadingList : lists[l].user # resp.user /\ lists[l].is_public

\* C4: a request of add_to_reading_list for an existing book that names a
\* list adds the book to that list, and to no other, when the requester owns
\* the list; when the list does not exist or belongs to another user it
\* fails with NotFound, no list's books change and no list is created.
C4_ExistingListMustBeOwned ==
    [][\A u \in Users, b \in Book, l \in ListIdInputs \ {0}, name \in Texts :
          add_to_reading_list(u, b, l, name) =>
             IF l \in ReadingList /\ lists[l].user = u
             THEN /\ lists' = [lists EXCEPT ![l].books = @ \cup {b}]
                  /\ resp'.status = "redirect"
             ELSE /\ resp'.status = "not_found"
                  /\ lists' = lists
                  /\ nextList' = nextList]_vars

\* C4 witness: with every list pk in use, a request naming a list has just
\* failed with NotFound on the list: the list is another user's
C4_Witness ==
    /\ resp.view = "add-to-reading-list"
    /\ resp.status = "not_found" /\ resp.message = NoReadingList
    /\ ReadingList = ListIds
    /\ \A l \in ReadingList : lists[l].is_public

\* C5: a request of add_to_reading_list for an existing book with no list
\* and a non-empty name creates exactly one reading list, owned by the
\* requester, whose books are that one book; every other list is unchanged.
C5_NewListHoldsTheBook ==
    [][\A u \in Users, b \in Book, name \in Texts \ {""} :
          add_to_reading_list(u, b, 0, name) =>
             \E l \in ListIds \ ReadingList :
                /\ DOMAIN lists' = ReadingList \cup {l}
                /\ lists'[l].user = u
                /\ lists'[l].books = {b}
                /\ lists'[l].name = name
                /\ \A k \in ReadingList : lists'[k] = lists[k]]_vars

\* C5 witness: the request has just created a second list, with the one book
\* of two, beside a list of another user that holds the other book
C5_Witness ==
    /\ resp.view = "add-to-reading-list"
    /\ resp.message = "New reading list created and book added"
    /\ \E l \in resp.body, k \in ReadingList :
          /\ k # l
          /\ lists[l].books = {resp.target}
          /\ lists[k].user # lists[l].user
          /\ lists[k].books # {} /\ resp.target \notin lists[k].books

\* C9: a request of add_to_reading_list for an existing book with neither a
\* list nor a name changes no reading list and creates none, says nothing,
\* and redirects to the book's detail page as a successful request does.
C9_NeitherIsNoOp ==
    [][\A u \in Users, b \in Book :
          /\ add_to_reading_list(u, b, 0, "") =>
                /\ lists' = lists
                /\ nextList' = nextList
                /\ resp'.status = "redirect" /\ resp'.target = b
                /\ resp'.message = ""
          /\ \A l \in ListIdInputs, name \in Texts :
                (add_to_reading_list(u, b, l, name) /\ resp'.message # ""
                    /\ resp'.status # "not_found")
                   => (resp'.status = "redirect" /\ resp'.target = b)]_vars

\* C9 witness: the silent redirect, with a list in the store that does not
\* hold the book and room for one more list
C9_Witness ==
    /\ resp.view = "add-to-reading-list"
    /\ resp.status = "redirect" /\ resp.message = "" /\ resp.body = {}
    /\ resp.target \in Book
    /\ nextList <= MaxLists
    /\ \E l \in ReadingList : resp.target \notin lists[l].books

\* C10: whenever the detail view was asked for an existing list it has
\* returned it, whoever asked and whatever is_public is, whereas the
\* listing's and add_to_reading_list's lists are the requester's own.
C10_DetailNotOwnerScoped ==
    [][/\ \A u \in Users, pk \in ReadingList :
             ReadingListDetailView(u, pk) =>
                (resp'.status = "ok" /\ resp'.body = {pk})
       /\ \A u \in Users :
             ReadingListView(u) => resp'.body \subseteq ListsOwnedBy(u)
       /\ \A u \in Users, b \in Book, l \in ListIdInputs, name \in Texts :
             add_to_reading_list(u, b, l, name) =>
                resp'.body \subseteq {k \in DOMAIN lists' : lists'[k].user = u}
      ]_vars

\* C10 witness: the detail view has shown a private list to a user who does
\* not own it
C10_Witness ==
    /\ resp.view = "reading-list-detail" /\ resp.status = "ok"
    /\ \E l \in resp.body : lists[l].user # resp.user /\ ~lists[l].is_public

-----------------------------------------------------------------------------
(* Claims about deletion (Spec) *)

\* every foreign key and every many-to-many row names rows that exist
ReferentialIntegrity ==
    /\ \A b \in Book : books[b].author \in Author
    /\ \A r \in Review : r.book \in Book /\ r.user \in users
    /\ \A l \in ReadingList : lists[l].user \in users /\ lists[l].books \subseteq Book

\* what a deletion takes with it, and nothing else
CascadeExact ==
    resp'.view = "admin-delete" =>
    /\ \A a \in AuthorIds :
          DeleteAuthor(a) =>
             /\ DOMAIN books' = {b \in Book : books[b].author # a}
             /\ \A r \in Review : books[r.book].author # a
                                     => CopiesIn(r, reviews') = CopiesIn(r, reviews)
             /\ \A r \in BagToSet(reviews') : books[r.book].author # a
             /\ users' = users /\ DOMAIN lists' = ReadingList
    /\ \A b \in BookIds :
          DeleteBook(b) =>
             /\ DOMAIN books' = Book \ {b}
             /\ \A r \in Review : r.book # b => CopiesIn(r, reviews') = CopiesIn(r, reviews)
             /\ \A r \in BagToSet(reviews') : r.book # b
             /\ authors' = authors /\ users' = users /\ DOMAIN lists' = ReadingList
    /\ \A u \in Users :
          DeleteUser(u) =>
             /\ users' = users \ {u}
             /\ \A r \in Review : r.user # u => CopiesIn(r, reviews') = CopiesIn(r, reviews)
             /\ \A r \in BagToSet(reviews') : r.user # u
             /\ DOMAIN lists' = {l \in ReadingList : lists[l].user # u}
             /\ books' = books /\ authors' = authors

\* C8: in every state no Book names a missing Author, no Review a missing
\* Book or User, no ReadingList a missing owner or a deleted Book; and
\* deleting an Author deletes its Books and their Reviews, deleting a Book
\* its Reviews, deleting a User that user's Reviews and ReadingLists.
C8_CascadeKeepsIntegrity == []ReferentialIntegrity /\ [][CascadeExact]_vars


\* C8 witness: the one author has just been deleted and every book went with
\* it, while users, a review-less store and a reading list emptied of its
\* books remain
C8_Witness ==
    /\ resp = Deleted("The author was deleted successfully.")
    /\ nextAuthor > 1 /\ Author = {}
    /\ nextBook > MaxBooks /\ Book = {}
    /\ reviews = EmptyBag
    /\ users # Users /\ users # {}
    /\ \E l \in ReadingList : lists[l].books = {}

=============================================================================
